---- MODULE Spec2Model ----
(***************************************************************************)
(* The persistence endpoint of lolaTool (src/app/api/data/route.ts): four  *)
(* route handlers GET, POST, PUT and DELETE doing read-modify-write over   *)
(* one JSON file, public/data.json.                                        *)
(*                                                                         *)
(* Node runs the handlers on one thread.  readFileSync and writeFileSync   *)
(* are synchronous, so a handler is interrupted only at an `await`: POST   *)
(* and PUT await request.json() between their read and their write, GET    *)
(* and DELETE await nothing and run to completion in one step.             *)
(***************************************************************************)
EXTENDS Integers, Sequences, FiniteSets, Bags, TLC

\* ------------------------------------------------------------------ bounds
MaxInitLen  == 2    \* articles in the initial data.json
MaxInitId   == 2    \* ids met in the initial data.json and in request bodies
                    \* are at most MaxInitId
MaxRequests == 3    \* requests received in a behaviour of SerialSpec
MaxPageRequests == 2 \* requests of the page that reach the service
MaxInterleaved == 2 \* requests received in a behaviour of Spec

\* ------------------------------------------------------------- JSON values
\* An object in memory is a function from its own property names to values;
\* a property that is absent (reads as undefined) is not in the DOMAIN.
\* Of interface Article the model keeps id and one text field, authors.
Authors == {"a", "b"}

\* The authors of the Articles of the initial data.json.
StoredAuthors == {"a"}

EmptyObject == [k \in {} |-> 0]

\* Objects with exactly the properties of dom, a subset of {id, authors}.
ObjectsOver(dom, ids) ==
  { [k \in dom |-> IF k = "id" THEN t[1] ELSE t[2]] :
      t \in (IF "id" \in dom THEN ids ELSE {0})
            \X (IF "authors" \in dom THEN Authors ELSE {"-"}) }

\* JSON.stringify of an object: the text's members, one name/value pair per
\* own property.  JSON.parse of such a text: the object with those properties.
JSONstringify(obj) == { <<k, obj[k]>> : k \in DOMAIN obj }

JSONparse(text) ==
  [k \in {m[1] : m \in text} |-> (CHOOSE m \in text : m[1] = k)[2]]

\* obj.k === other.k for a property that may be absent on either side
\* (undefined === undefined is true).
SameProp(obj, other, k) ==
  /\ (k \in DOMAIN obj) = (k \in DOMAIN other)
  /\ (k \in DOMAIN obj) => (obj[k] = other[k])

\* ------------------------------------------------------------ the data file
\* kind "json": the file holds a serialized DataFile, text[i] being the text
\* of articles[i]; "missing": no file; "garbage": a file JSON.parse rejects.
JsonFile(texts) == [kind |-> "json", text |-> texts]
MissingFile == [kind |-> "missing", text |-> <<>>]
GarbageFile == [kind |-> "garbage", text |-> <<>>]

DataFile(articles) == [articles |-> articles]

readDataFile(f) ==
  IF f.kind = "json"
    THEN DataFile([i \in 1..Len(f.text) |-> JSONparse(f.text[i])])
    ELSE DataFile(<<>>)

\* fs.writeFileSync opens the file with flag 'w', which truncates it, then
\* writes.  "ok": written in full.  "EACCES": the open fails, the file is as
\* it was.  "ENOSPC": the write fails after the truncation, the file is left
\* empty or cut short, which is no JSON text.
WriteOutcomes == {"ok", "EACCES", "ENOSPC"}

writeDataFile(f, data, outcome) ==
  IF outcome = "ok"
    THEN [success |-> TRUE,
          file |-> JsonFile([i \in 1..Len(data.articles) |-> JSONstringify(data.articles[i])])]
    ELSE IF outcome = "EACCES"
      THEN [success |-> FALSE, file |-> f]
      ELSE [success |-> FALSE, file |-> GarbageFile]

\* ---------------------------------------------------------------- requests
\* A request body: text request.json() rejects, the JSON text null, or a JSON
\* object with any of the members id, authors.
ObjectBodies ==
  UNION { ObjectsOver(dom, 1..MaxInitId) : dom \in SUBSET {"id", "authors"} }

Bodies ==
  {[kind |-> "unparseable", obj |-> EmptyObject], [kind |-> "null", obj |-> EmptyObject]}
    \cup { [kind |-> "object", obj |-> o] : o \in ObjectBodies }

\* The ids a DELETE can name: those of the initial data.json and the one a
\* first Create adds to them.
MaxQueryId == MaxInitId + 1

\* The ?id= query parameter of a DELETE: absent, digits, or text that does
\* not start with a number.
QueryParams ==
  {[kind |-> "absent", n |-> 0], [kind |-> "text", n |-> 0]}
    \cup { [kind |-> "digits", n |-> k] : k \in 0..MaxQueryId }

\* parseInt(url.searchParams.get("id") || "0")
parseIntId(param) ==
  IF param.kind = "absent" THEN [nan |-> FALSE, n |-> 0]
  ELSE IF param.kind = "digits" THEN [nan |-> FALSE, n |-> param.n]
  ELSE [nan |-> TRUE, n |-> 0]

\* A test for NaN alone, which lets 0 through.
IsNaN(num) == num.nan

\* !id
Falsy(num) == num.nan \/ num.n = 0

\* ---------------------------------------------------------------- responses
NextResponse(status, success, message, payload) ==
  [status |-> status, success |-> success, message |-> message, payload |-> payload]

NoResponse == NextResponse(0, "absent", "", <<>>)

\* What a handler invocation leaves behind: the file, the response, and the
\* numbers of readDataFile and writeDataFile calls it made.
Outcome(f, response, reads, writes) ==
  [file |-> f, resp |-> response, reads |-> reads, writes |-> writes]

\* A handler without its catch block: what it throws leaves it with no
\* response built.
Unhandled(f) == Outcome(f, NoResponse, 1, 0)

\* A 400 for whatever the handler throws on.
BadRequest(f) == Outcome(f, NextResponse(400, "false", "Erreur serveur", <<>>), 1, 0)

\* The catch block of a handler: nothing was written.
ServerError(f) == Outcome(f, NextResponse(500, "false", "Erreur serveur", <<>>), 1, 0)

\* The else branch after writeDataFile returned false.
WriteFailed(f) ==
  Outcome(f, NextResponse(500, "false", "Echec de l'ecriture du fichier", <<>>), 1, 1)

\* A not-found that leaves an empty Document where it found none.
NotFoundCreating(f) ==
  Outcome(IF f.kind = "json" THEN f ELSE JsonFile(<<>>),
          NextResponse(404, "false", "Article non trouve", <<>>), 1, 0)

NotFound(f) == Outcome(f, NextResponse(404, "false", "Article non trouve", <<>>), 1, 0)

\* ---------------------------------------------------------------------- POST
\* The id of the last article instead of the largest id.
lastId(articles, max) ==
  IF articles = <<>> THEN max ELSE articles[Len(articles)].id

\* The number of Articles taken as the largest id.
lengthAsMaxId(articles, max) == Len(articles)

\* data.articles.reduce((max, article) => article.id > max ? article.id : max, 0)
RECURSIVE reduceMaxId(_, _)
reduceMaxId(articles, max) ==
  IF articles = <<>> THEN max
  ELSE LET article == Head(articles)
       IN reduceMaxId(Tail(articles),
                      IF "id" \in DOMAIN article /\ article.id > max THEN article.id ELSE max)

\* A Create that keeps an id the body brought.
SetIdIfAbsent(obj, value) ==
  [k \in DOMAIN obj \cup {"id"} |-> IF k = "id" /\ "id" \notin DOMAIN obj THEN value ELSE obj[k]]

\* newArticle.id = value
SetId(obj, value) ==
  [k \in DOMAIN obj \cup {"id"} |-> IF k = "id" THEN value ELSE obj[k]]

\* unshift instead of push: the new article goes first.
unshift(articles, newArticle) == <<newArticle>> \o articles

\* data.articles.push(newArticle)
push(articles, newArticle) == Append(articles, newArticle)

\* A POST that loads the file again after its await.
POSTOutcomeReloaded(f, data, body, w) ==
  IF body.kind # "object"
    THEN ServerError(f)
    ELSE LET fresh == readDataFile(f)
             newArticle == SetId(body.obj, reduceMaxId(fresh.articles, 0) + 1)
             wr == writeDataFile(f, DataFile(push(fresh.articles, newArticle)), w)
         IN IF wr.success
              THEN Outcome(wr.file,
                     NextResponse(200, "true", "", <<JSONstringify(newArticle)>>), 1, 1)
              ELSE WriteFailed(wr.file)

\* POST from the point where request.json() settles; data is what
\* readDataFile returned before the await.  An unparseable body rejects the
\* await, and `newArticle.id = ...` on null throws: both end in the catch.
POSTOutcome(f, data, body, w) ==
  IF body.kind # "object"
    THEN ServerError(f)
    ELSE LET maxId == reduceMaxId(data.articles, 0)
             newArticle == SetId(body.obj, maxId + 1)
             wr == writeDataFile(f, DataFile(push(data.articles, newArticle)), w)
         IN IF wr.success
              THEN Outcome(wr.file,
                     NextResponse(200, "true", "", <<JSONstringify(newArticle)>>), 1, 1)
              ELSE WriteFailed(wr.file)

\* ----------------------------------------------------------------------- PUT
\* data.articles.findIndex(article => article.id === updatedArticle.id):
\* the 0-based index of the first match, -1 when there is none.
RECURSIVE findIndexFrom(_, _, _)
findIndexFrom(articles, updatedArticle, i) ==
  IF i > Len(articles) THEN -1
  ELSE IF SameProp(articles[i], updatedArticle, "id") THEN i - 1
  ELSE findIndexFrom(articles, updatedArticle, i + 1)

\* Index 0 instead of -1 when nothing matches.
findIndexOrFirst(articles, updatedArticle) ==
  LET i == findIndexFrom(articles, updatedArticle, 1)
  IN IF i = -1 /\ articles # <<>> THEN 0 ELSE i

findIndex(articles, updatedArticle) == findIndexFrom(articles, updatedArticle, 1)

\* A merge, { ...data.articles[index], ...updatedArticle }, instead of a
\* replacement.
MergeAt(articles, index, updatedArticle) ==
  LET old == articles[index + 1]
  IN [articles EXCEPT ![index + 1] =
        [k \in DOMAIN old \cup DOMAIN updatedArticle |->
           IF k \in DOMAIN updatedArticle THEN updatedArticle[k] ELSE old[k]]]

\* data.articles[index] = updatedArticle
AssignAt(articles, index, updatedArticle) ==
  [articles EXCEPT ![index + 1] = updatedArticle]

\* PUT from the point where request.json() settles.  With the body null the
\* callback of findIndex throws on the first article it is called with, and
\* is never called on an empty array.
PUTOutcome(f, data, body, w) ==
  IF body.kind = "unparseable" \/ (body.kind = "null" /\ data.articles # <<>>)
    THEN ServerError(f)
    ELSE LET updatedArticle == body.obj
             index == IF body.kind = "null" THEN -1
                      ELSE findIndex(data.articles, updatedArticle)
         IN IF index = -1
              THEN NotFound(f)
              ELSE LET wr == writeDataFile(f,
                               DataFile(AssignAt(data.articles, index, updatedArticle)), w)
                   IN IF wr.success
                        THEN Outcome(wr.file,
                               NextResponse(200, "true", "", <<JSONstringify(updatedArticle)>>),
                               1, 1)
                        ELSE WriteFailed(wr.file)

\* -------------------------------------------------------------------- DELETE
\* splice(id - 1, 1): the id taken for a position.
spliceAt(articles, id) ==
  IF id \in 1..Len(articles)
    THEN SubSeq(articles, 1, id - 1) \o SubSeq(articles, id + 1, Len(articles))
    ELSE articles

\* data.articles.filter(article => article.id !== id)
RECURSIVE filter(_, _)
filter(articles, id) ==
  IF articles = <<>> THEN <<>>
  ELSE LET article == Head(articles)
           rest == filter(Tail(articles), id)
       IN IF "id" \in DOMAIN article /\ article.id = id THEN rest ELSE <<article>> \o rest

DELETEOutcome(f, param, w) ==
  LET id == parseIntId(param)
  IN IF Falsy(id)
       THEN Outcome(f, NextResponse(400, "false", "ID manquant", <<>>), 0, 0)
       ELSE LET data == readDataFile(f)
                filteredArticles == filter(data.articles, id.n)
            IN IF Len(filteredArticles) = Len(data.articles)
                 THEN NotFound(f)
                 ELSE LET wr == writeDataFile(f, DataFile(filteredArticles), w)
                      IN IF wr.success
                           THEN Outcome(wr.file, NextResponse(200, "true", "", <<>>), 1, 1)
                           ELSE WriteFailed(wr.file)

\* ----------------------------------------------------------------------- GET
\* A GET that creates the file when it cannot read it.
GETOutcomeCreating(f) ==
  LET data == readDataFile(f)
  IN Outcome(IF f.kind = "json" THEN f ELSE JsonFile(<<>>),
       NextResponse(200, "absent", "",
                    [i \in 1..Len(data.articles) |-> JSONstringify(data.articles[i])]),
       1, 0)

\* A GET that answers 500 when the file cannot be read.
GETOutcomeStrict(f) ==
  IF f.kind # "json"
    THEN ServerError(f)
    ELSE LET data == readDataFile(f)
         IN Outcome(f,
              NextResponse(200, "absent", "",
                           [i \in 1..Len(data.articles) |-> JSONstringify(data.articles[i])]),
              1, 0)

\* NextResponse.json(data): the response body is the serialized DataFile.
GETOutcome(f) ==
  LET data == readDataFile(f)
  IN Outcome(f,
       NextResponse(200, "absent", "",
                    [i \in 1..Len(data.articles) |-> JSONstringify(data.articles[i])]),
       1, 0)

\* --------------------------------------------------------------------- state
VARIABLES
  file,      \* public/data.json
  pending,   \* the POST and PUT invocations suspended at their await (a bag)
  received,  \* requests received so far
  resp,      \* the response sent last
  call,      \* the invocation that sent resp: its request and what it did
  created,   \* the ids given out since the start, while only Creates were made
  ui         \* the page in one browser: Home, ArticleForm and ArticleDetail state

vars == <<file, pending, received, resp, call, created, ui>>

\* An invocation suspended at `await request.json()` holds what readDataFile
\* returned to it.
Suspended(op, data) == [op |-> op, data |-> data]

NoBody == [kind |-> "none", obj |-> EmptyObject]
NoParam == [kind |-> "none", n |-> 0]

Call(op, body, param, data, before, o) ==
  [op |-> op, body |-> body, param |-> param, data |-> data, before |-> before,
   reads |-> o.reads, writes |-> o.writes]

\* The form's article before anything is typed.
defaultArticle == [authors |-> ""]

\* The page as it first renders: the list, no dialog, no request in flight.
\* selectedArticle, saving and deleting hold one Article or none.  isEditing
\* and currentArticle, which only feed the dialog's title and formData, are
\* left out.
InitialPage ==
  [selectedArticle |-> <<>>, isFormOpen |-> FALSE,
   formData |-> defaultArticle, submitError |-> "", isSubmitting |-> FALSE,
   deleteConfirm |-> FALSE, saving |-> <<>>, deleting |-> <<>>]

\* The initial data.json: a DataFile of at most MaxInitLen Articles with
\* pairwise distinct ids, or no file, or a file that does not parse.
InitArticles ==
  UNION { { s \in [1..n -> ObjectsOver({"id", "authors"}, 1..MaxInitId)] :
              /\ \A i \in 1..n : s[i].authors \in StoredAuthors
              /\ \A i, j \in 1..n : i # j => s[i].id # s[j].id } : n \in 0..MaxInitLen }

InitFiles ==
  { JsonFile([i \in 1..Len(s) |-> JSONstringify(s[i])]) : s \in InitArticles }
    \cup {MissingFile, GarbageFile}

Init ==
  /\ file \in InitFiles
  /\ pending = EmptyBag
  /\ received = 0
  /\ resp = NoResponse
  /\ call = Call("none", NoBody, NoParam, DataFile(<<>>), file,
                 Outcome(file, NoResponse, 0, 0))
  /\ created = [pure |-> readDataFile(file).articles = <<>>, ids |-> <<>>]
  /\ ui = InitialPage

\* The id of the article in a Create's success response.
AssignedId(response) == JSONparse(response.payload[1]).id

\* created after the invocation op answered response.
Created(op, response) ==
  IF created.pure /\ op \in {"GET", "POST"}
    THEN [pure |-> TRUE,
          ids |-> IF op = "POST" /\ response.status = 200
                    THEN Append(created.ids, AssignedId(response))
                    ELSE created.ids]
    ELSE [pure |-> FALSE, ids |-> <<>>]

\* A request arrives, while fewer than limit have.
Receive(limit) ==
  /\ received < limit
  /\ received' = received + 1

\* An invocation returns: its effect on the file and its response are there.
Complete(op, body, param, data, o) ==
  /\ file' = o.file
  /\ resp' = o.resp
  /\ call' = Call(op, body, param, data, file, o)
  /\ created' = Created(op, o.resp)

\* A whole invocation of each handler, from its first line to its return.
GETRun ==
  /\ Complete("GET", NoBody, NoParam, readDataFile(file), GETOutcome(file))
  /\ UNCHANGED <<pending, ui>>

POSTRun ==
  \E body \in Bodies, w \in WriteOutcomes :
    /\ Complete("POST", body, NoParam, readDataFile(file),
                POSTOutcome(file, readDataFile(file), body, w))
    /\ UNCHANGED <<pending, ui>>

PUTRun ==
  \E body \in Bodies, w \in WriteOutcomes :
    /\ Complete("PUT", body, NoParam, readDataFile(file),
                PUTOutcome(file, readDataFile(file), body, w))
    /\ UNCHANGED <<pending, ui>>

DELETERun ==
  \E param \in QueryParams, w \in WriteOutcomes :
    /\ Complete("DELETE", NoBody, param, readDataFile(file), DELETEOutcome(file, param, w))
    /\ UNCHANGED <<pending, ui>>

\* ------------------------------------------------- requests, one at a time
List == Receive(MaxRequests) /\ GETRun

Create == Receive(MaxRequests) /\ POSTRun

Update == Receive(MaxRequests) /\ PUTRun

Delete == Receive(MaxRequests) /\ DELETERun

SerialNext == List \/ Create \/ Update \/ Delete

SerialSpec == Init /\ [][SerialNext]_vars

\* ---------------------------------------- requests interleaved at the awaits
\* GET and DELETE contain no await: each runs in one step.
GET == Receive(MaxInterleaved) /\ GETRun

DELETE == Receive(MaxInterleaved) /\ DELETERun

\* POST up to `await request.json()`: readDataFile has returned.
POSTBegin ==
  /\ Receive(MaxInterleaved)
  /\ pending' = pending (+) SetToBag({Suspended("POST", readDataFile(file))})
  /\ UNCHANGED <<file, resp, call, created, ui>>

\* POST from the await on, for one of the suspended invocations.
POSTResume ==
  \E inv \in BagToSet(pending), body \in Bodies, w \in WriteOutcomes :
    /\ inv.op = "POST"
    /\ Complete("POST", body, NoParam, inv.data, POSTOutcome(file, inv.data, body, w))
    /\ pending' = pending (-) SetToBag({inv})
    /\ UNCHANGED <<received, ui>>

PUTBegin ==
  /\ Receive(MaxInterleaved)
  /\ pending' = pending (+) SetToBag({Suspended("PUT", readDataFile(file))})
  /\ UNCHANGED <<file, resp, call, created, ui>>

PUTResume ==
  \E inv \in BagToSet(pending), body \in Bodies, w \in WriteOutcomes :
    /\ inv.op = "PUT"
    /\ Complete("PUT", body, NoParam, inv.data, PUTOutcome(file, inv.data, body, w))
    /\ pending' = pending (-) SetToBag({inv})
    /\ UNCHANGED <<received, ui>>

Next == GET \/ DELETE \/ POSTBegin \/ POSTResume \/ PUTBegin \/ PUTResume

Spec == Init /\ [][Next]_vars

\* ================================================================== claims
\* The stored Document: what a Load of the file yields.
Stored == readDataFile(file).articles

\* The Document that was in the file when the invocation that answered last
\* made its last step.
Before == readDataFile(call.before).articles

\* The Document the invocation that answered last had loaded.
Loaded == call.data.articles

HasIds(articles) == \A i \in 1..Len(articles) : "id" \in DOMAIN articles[i]

IdsOf(articles) == { articles[i].id : i \in 1..Len(articles) }

PairwiseDistinct(articles) ==
  \A i, j \in 1..Len(articles) : i # j => articles[i].id # articles[j].id

\* The largest element of a finite set of naturals, 0 for the empty set.
Largest(S) == IF S = {} THEN 0 ELSE CHOOSE m \in S : \A x \in S : x <= m

Succeeded(op) == call.op = op /\ resp.status = 200

\* C1: with requests handled one at a time and any write allowed to fail,
\* every Article of the stored Document has an id and no two Articles of it
\* have the same id, in every state reachable from a Document with pairwise
\* distinct ids.
C1_IdsPairwiseDistinct == HasIds(Stored) /\ PairwiseDistinct(Stored)

\* A Create succeeded on a Document that already held two Articles whose ids
\* are not stored in increasing order.
C1_Witness ==
  /\ Succeeded("POST")
  /\ Len(Stored) >= 3
  /\ Stored[1].id > Stored[2].id

\* C2: a successful Create answers with an Article whose id is the largest id
\* of the Document the Create loaded plus one (1 when that Document is empty),
\* hence an id greater than every id of the loaded Document, wherever the
\* largest id stands in the sequence.
C2_NewIdIsMaxPlusOne ==
  Succeeded("POST") =>
    /\ AssignedId(resp) = Largest(IdsOf(Loaded)) + 1
    /\ \A i \in 1..Len(Loaded) : Loaded[i].id < AssignedId(resp)
    /\ Loaded = <<>> => AssignedId(resp) = 1

\* A Create succeeded on a loaded Document whose largest id is not the last.
C2_Witness ==
  /\ Succeeded("POST")
  /\ Len(Loaded) >= 2
  /\ Loaded[Len(Loaded)].id < Largest(IdsOf(Loaded))
  /\ AssignedId(resp) = Largest(IdsOf(Loaded)) + 1

\* C3: starting from an empty Document and with only Creates (and Lists)
\* handled one at a time, the k-th successful Create is given the id k.
C3_CreatesNumberedInOrder ==
  created.pure => \A k \in 1..Len(created.ids) : created.ids[k] = k

Range(seq) == { seq[i] : i \in 1..Len(seq) }

\* C4: a successful POST or PUT leaves in the file the Document it loaded
\* before its await with its own change applied, whatever was stored in the
\* meantime; the file changes to a new Document only in a step that answers
\* 200.  An Article another request stored, with a 200, between this
\* invocation's Load and its Replace is therefore lost (C4_Witness).
C4_ReplaceFromLoaded ==
  /\ (file # call.before /\ file.kind = "json") => (resp.status = 200 /\ call.writes = 1)
  /\ Succeeded("POST") => Stored = Loaded \o <<JSONparse(resp.payload[1])>>
  /\ Succeeded("PUT") =>
       /\ Len(Stored) = Len(Loaded)
       /\ \A i \in 1..Len(Loaded) :
            Stored[i] = IF Loaded[i].id = call.body.obj.id THEN call.body.obj ELSE Loaded[i]

\* Two Creates loaded the same Document; the other one stored its Article and
\* answered 200, then this one answered 200 too and the other's Article is in
\* the file no more.
C4_Witness ==
  /\ Succeeded("POST")
  /\ call.before.kind = "json"
  /\ Len(Before) = Len(Loaded) + 1
  /\ Len(Stored) = Len(Loaded) + 1
  /\ Before[Len(Before)] \notin Range(Stored)

\* C5: when the write of a Create, Update or Delete fails, the answer is 500
\* with success false and the stored Document is what it was before.
C5_FailedWriteLeavesDocument ==
  (call.writes = 1 /\ resp.status # 200) =>
    /\ resp.status = 500
    /\ resp.success = "false"
    /\ Stored = Before

\* The id of the request that answered last matches no Article it loaded:
\* an Update with an object body, or a Delete with a usable id.
NoMatch ==
  \/ /\ call.op = "PUT"
     /\ call.body.kind = "object"
     /\ \A i \in 1..Len(Loaded) : ~SameProp(Loaded[i], call.body.obj, "id")
  \/ /\ call.op = "DELETE"
     /\ ~Falsy(parseIntId(call.param))
     /\ call.param.n \notin IdsOf(Loaded)

\* C6: an Update or a Delete whose id matches no Article of the loaded
\* Document answers 404, calls writeDataFile not once and leaves the file as
\* it was.
C6_NotFoundLeavesFile ==
  NoMatch =>
    /\ resp.status = 404
    /\ resp.success = "false"
    /\ call.writes = 0
    /\ file = call.before

\* An Update with an id that no Article of a non-empty Document has.
C6_Witness ==
  /\ NoMatch
  /\ call.op = "PUT"
  /\ "id" \in DOMAIN call.body.obj
  /\ Len(Loaded) >= 2
  /\ resp.status = 404

\* C7: after a successful Delete the stored Document is the previous one
\* without the Article of the given id, the others unchanged and in their
\* order, and the response carries nothing but success.
C7_DeleteRemovesExactlyOne ==
  Succeeded("DELETE") =>
    /\ \E k \in 1..Len(Before) :
         /\ Before[k].id = call.param.n
         /\ Stored = SubSeq(Before, 1, k - 1) \o SubSeq(Before, k + 1, Len(Before))
    /\ resp.success = "true"
    /\ resp.payload = <<>>

\* A Delete removed the middle Article of three.
C7_Witness ==
  /\ Succeeded("DELETE")
  /\ Len(Before) = 3
  /\ Before[2].id = call.param.n
  /\ Stored = <<Before[1], Before[3]>>

\* C8: after a successful Update the entry that had the id is the Article of
\* the request and nothing else (no property of the old entry survives),
\* every other entry is unchanged, and the length and the sequence of ids are
\* as before.
C8_UpdateReplacesInPlace ==
  Succeeded("PUT") =>
    /\ Len(Stored) = Len(Before)
    /\ \E i \in 1..Len(Before) :
         /\ Before[i].id = call.body.obj.id
         /\ Stored[i] = call.body.obj
         /\ DOMAIN Stored[i] = DOMAIN call.body.obj
         /\ \A j \in 1..Len(Before) : j # i => Stored[j] = Before[j]
    /\ [i \in 1..Len(Stored) |-> Stored[i].id] = [i \in 1..Len(Before) |-> Before[i].id]
    /\ resp.payload = <<JSONstringify(call.body.obj)>>

\* An Update without authors replaced the second of at least two Articles,
\* which had authors.
C8_Witness ==
  /\ Succeeded("PUT")
  /\ Len(Before) >= 2
  /\ Before[2].id = call.body.obj.id
  /\ "authors" \in DOMAIN Before[2]
  /\ "authors" \notin DOMAIN call.body.obj
  /\ "authors" \notin DOMAIN Stored[2]

\* C9: after a successful Create the stored Document is the loaded one with
\* the new Article appended, and a List made then returns the prior Articles
\* in their order followed by the Article of the Create's response, which has
\* the assigned id and every other member of the request body.
C9_CreateAppendsAndListReturns ==
  Succeeded("POST") =>
    LET new == JSONparse(resp.payload[1])
        listed == GETOutcome(file).resp.payload
    IN /\ Stored = Before \o <<new>>
       /\ Len(listed) = Len(Before) + 1
       /\ \A i \in 1..Len(Before) : listed[i] = JSONstringify(Before[i])
       /\ listed[Len(listed)] = resp.payload[1]
       /\ DOMAIN new = DOMAIN call.body.obj \cup {"id"}
       /\ new.id = Largest(IdsOf(Before)) + 1
       /\ \A k \in DOMAIN call.body.obj \ {"id"} : new[k] = call.body.obj[k]

\* A Create with authors, and with an id of its own that is not the one
\* assigned, succeeded on a Document of two Articles.
C9_Witness ==
  /\ Succeeded("POST")
  /\ Len(Before) = 2
  /\ DOMAIN call.body.obj = {"id", "authors"}
  /\ call.body.obj.id # AssignedId(resp)
  /\ Stored[3].authors = call.body.obj.authors

\* C10: a Delete whose id parameter is absent or 0 answers 400 having called
\* neither readDataFile nor writeDataFile, and the file is as it was.
C10_DeleteWithoutIdTouchesNothing ==
  (call.op = "DELETE" /\ (call.param.kind = "absent" \/ call.param = [kind |-> "digits", n |-> 0])) =>
    /\ resp.status = 400
    /\ resp.success = "false"
    /\ call.reads = 0
    /\ call.writes = 0
    /\ file = call.before

\* A Delete with id=0 was answered 400 while the file held Articles.
C10_Witness ==
  /\ call.op = "DELETE"
  /\ call.param = [kind |-> "digits", n |-> 0]
  /\ resp.status = 400
  /\ Len(Stored) >= 1

\* The text of the Documents's articles as the file holds it; none when there
\* is no file or the file does not parse.
TextOf(f) == IF f.kind = "json" THEN f.text ELSE <<>>

\* C11: a List answers 200 with the stored Document as the file holds it and
\* leaves the file as it was, writing nothing; a List that follows a List
\* returns the same response.
C11_ListStep ==
  (call'.op = "GET" /\ received' = received + 1) =>
    /\ file' = file
    /\ call'.writes = 0
    /\ resp'.status = 200
    /\ resp'.payload = TextOf(file)
    /\ call.op = "GET" => resp' = resp

C11_ListVerbatimAndPure == [][C11_ListStep]_vars

\* A List returned two Articles after another request had been handled.
C11_Witness ==
  /\ call.op = "GET"
  /\ received >= 2
  /\ Len(resp.payload) = 2
  /\ resp.payload = file.text

\* C12: a Load of a missing or unparseable file yields the empty Document,
\* and a List handled in that state answers 200 with no articles.
C12_LoadDegradesToEmpty ==
  /\ file.kind # "json" => readDataFile(file) = DataFile(<<>>)
  /\ (call.op # "none" /\ call.reads = 1 /\ call.before.kind # "json" /\ pending = EmptyBag) =>
       Loaded = <<>>
  /\ (call.op = "GET" /\ call.before.kind # "json") =>
       /\ resp.status = 200
       /\ resp.payload = <<>>
       /\ file = call.before

\* A List was answered while the file, cut short by a failed write, did not
\* parse.
C12_Witness ==
  /\ call.op = "GET"
  /\ received >= 2
  /\ call.before.kind = "garbage"
  /\ resp.status = 200
  /\ resp.payload = <<>>

\* The body of the request that answered last is not what the handler
\* expects: no JSON, null, or an object without the required authors.
Malformed ==
  /\ call.op \in {"POST", "PUT"}
  /\ \/ call.body.kind # "object"
     \/ "authors" \notin DOMAIN call.body.obj

GenericError == resp.status = 500 /\ resp.message = "Erreur serveur"

\* C13 as stated: a Create or Update with a body that is no JSON or is not
\* shaped as expected is answered with the generic 500.
C13_MalformedBodyIs500 == Malformed => GenericError

\* C13 amended: the generic 500, with nothing written, answers a Create or
\* Update whose body is no JSON, a Create whose body is null, and an Update
\* whose body is null when the loaded Document has an Article; an Update with
\* a null body on an empty Document is answered 404, and a body that is a JSON
\* object is never answered with the generic 500, whatever its members.
C13_GenericErrorCases ==
  call.op \in {"POST", "PUT"} =>
    /\ (\/ call.body.kind = "unparseable"
        \/ (call.body.kind = "null" /\ call.op = "POST")
        \/ (call.body.kind = "null" /\ call.op = "PUT" /\ Loaded # <<>>)) =>
         (GenericError /\ resp.success = "false" /\ call.writes = 0 /\ file = call.before)
    /\ (call.body.kind = "null" /\ call.op = "PUT" /\ Loaded = <<>>) => resp.status = 404
    /\ call.body.kind = "object" => ~GenericError

\* An Update whose body is no JSON was answered the generic 500 while the
\* Document held Articles.
C13_Witness ==
  /\ call.op = "PUT"
  /\ call.body.kind = "unparseable"
  /\ Len(Before) >= 1
  /\ GenericError

\* articles is loaded with one Create, one Update or one Delete applied.
OneOperationApplied(loaded, articles) ==
  \/ /\ Len(articles) = Len(loaded) + 1
     /\ SubSeq(articles, 1, Len(loaded)) = loaded
     /\ articles[Len(articles)].id = Largest(IdsOf(loaded)) + 1
  \/ /\ Len(articles) = Len(loaded)
     /\ \E k \in 1..Len(loaded) :
          /\ articles[k].id = loaded[k].id
          /\ \A i \in 1..Len(loaded) : i # k => articles[i] = loaded[i]
  \/ /\ Len(articles) = Len(loaded) - 1
     /\ \E id \in IdsOf(loaded) : articles = filter(loaded, id)

\* C16: with invocations interleaved at their awaits, every Article of the
\* stored Document has an id and no two have the same; so has every Document
\* a suspended invocation holds; and a Document an invocation has just put in
\* the file is the Document it loaded with one Create, Update or Delete
\* applied.
C16_DistinctIdsInterleaved ==
  /\ HasIds(Stored) /\ PairwiseDistinct(Stored)
  /\ \A inv \in BagToSet(pending) :
       HasIds(inv.data.articles) /\ PairwiseDistinct(inv.data.articles)
  /\ (file # call.before /\ file.kind = "json") =>
       /\ HasIds(Loaded) /\ PairwiseDistinct(Loaded)
       /\ OneOperationApplied(Loaded, Stored)

\* A Create that had loaded the Document before another request replaced it
\* has written, and the file holds two Articles or more.
C16_Witness ==
  /\ Succeeded("POST")
  /\ call.before.kind = "json"
  /\ Before # Loaded
  /\ file # call.before
  /\ Len(Stored) >= 2
  /\ PairwiseDistinct(Stored)

\* The Article of a Create's success response.
NewArticle(response) == JSONparse(response.payload[1])

\* C17: when a Create has answered 200 while another Create that loaded the
\* same Document is still suspended, that other Create, whatever object it
\* receives, is answered 200 with the same id once its write succeeds, and
\* the Document it writes is the loaded one with only its own Article added.
\* Seen from the Create that writes last: when the file held the Document it
\* loaded plus one Article with the id it was going to assign, it has
\* answered with that same id and the file holds the loaded Document plus
\* its own Article alone.
C17_InterleavedCreatesShareId ==
  /\ (Succeeded("POST") /\ Suspended("POST", call.data) \in BagToSet(pending)) =>
       \A body \in Bodies : body.kind = "object" =>
         LET o == POSTOutcome(file, call.data, body, "ok")
         IN /\ o.resp.status = 200
            /\ o.resp.success = "true"
            /\ AssignedId(o.resp) = AssignedId(resp)
            /\ readDataFile(o.file).articles = Loaded \o <<NewArticle(o.resp)>>
  /\ (/\ Succeeded("POST")
      /\ call.before.kind = "json"
      /\ Len(Before) = Len(Loaded) + 1
      /\ SubSeq(Before, 1, Len(Loaded)) = Loaded
      /\ Before[Len(Before)].id = Largest(IdsOf(Loaded)) + 1) =>
       /\ AssignedId(resp) = Before[Len(Before)].id
       /\ Stored = Loaded \o <<NewArticle(resp)>>

\* Two Creates were handled from the empty Document, both were answered 200
\* with id 1, and the file holds one Article, which is not the one the first
\* to write had stored.
C17_Witness ==
  /\ Succeeded("POST")
  /\ created.pure
  /\ created.ids = <<1, 1>>
  /\ Len(Before) = 1
  /\ Len(Stored) = 1
  /\ Stored # Before

\* Creates and Deletes, one at a time, on a Document whose ids may have gaps
\* such as earlier Deletes leave: at most MaxInitLen Articles with distinct
\* ids up to MaxQueryId.
GapInit ==
  /\ \E s \in UNION { [1..n -> ObjectsOver({"id", "authors"}, 1..MaxQueryId)] : n \in 0..MaxInitLen } :
       /\ \A i \in 1..Len(s) : s[i].authors \in StoredAuthors
       /\ \A i, j \in 1..Len(s) : i # j => s[i].id # s[j].id
       /\ file = JsonFile([i \in 1..Len(s) |-> JSONstringify(s[i])])
  /\ pending = EmptyBag
  /\ received = 0
  /\ resp = NoResponse
  /\ call = Call("none", NoBody, NoParam, DataFile(<<>>), file,
                 Outcome(file, NoResponse, 0, 0))
  /\ created = [pure |-> readDataFile(file).articles = <<>>, ids |-> <<>>]
  /\ ui = InitialPage

GapNext == Create \/ Delete

GapSpec == GapInit /\ [][GapNext]_vars

\* The request that answered last is a successful Delete of the Article that
\* held the largest id.
DeletedMax ==
  /\ Succeeded("DELETE")
  /\ parseIntId(call.param).n = Largest(IdsOf(Loaded))

\* The step is a Create, the next request after the one that answered last,
\* and it is answered 200.
NextCreateSucceeds ==
  /\ received' = received + 1
  /\ call'.op = "POST"
  /\ resp'.status = 200

\* C18 as stated: the Create that follows a successful Delete of the Article
\* with the largest id is given that same id, when an Article remains.
C18_NextCreateReusesDeletedId ==
  [][(DeletedMax /\ Stored # <<>> /\ NextCreateSucceeds) =>
       AssignedId(resp') = Largest(IdsOf(Loaded))]_vars

\* C18 amended: the Create that follows a successful Delete of the Article
\* with the largest id m is given the largest remaining id plus one, 1 when
\* nothing remains; that is never more than m, and is m exactly when m is 1
\* or an Article with id m - 1 remains.
C18_NextCreateAfterDeletedMax ==
  [][(DeletedMax /\ NextCreateSucceeds) =>
       LET m == Largest(IdsOf(Loaded))
       IN /\ AssignedId(resp') = Largest(IdsOf(Stored)) + 1
          /\ AssignedId(resp') <= m
          /\ AssignedId(resp') = m <=> (m = 1 \/ (m - 1) \in IdsOf(Stored))
          /\ Stored = <<>> => AssignedId(resp') = 1]_vars

\* The Article with the largest id was deleted, the largest id that remains
\* is not the one just below it, and another request can follow.
C18_Witness ==
  /\ DeletedMax
  /\ Stored # <<>>
  /\ Largest(IdsOf(Stored)) + 1 < Largest(IdsOf(Loaded))
  /\ received < MaxRequests

\* C19: handled while the file is missing or does not parse, a Create with
\* an object body whose write succeeds is answered 200 with id 1 and the file
\* becomes the Document of the new Article alone (when the write fails the
\* answer is the write-failure 500 and the file still is no Document); an
\* Update whose body parses, and a Delete with a usable id, are answered 404
\* and the file is left as it was, nothing being written.
C19_NoFileCreateSucceedsOthersNotFound ==
  call.before.kind # "json" =>
    /\ \A body \in Bodies : body.kind = "object" =>
         LET o == POSTOutcome(call.before, readDataFile(call.before), body, "ok")
         IN /\ o.resp.status = 200
            /\ AssignedId(o.resp) = 1
            /\ o.file = JsonFile(o.resp.payload)
    /\ (call.op = "POST" /\ call.body.kind = "object") =>
         /\ call.writes = 1
         /\ resp.status = 200 =>
              /\ AssignedId(resp) = 1
              /\ file = JsonFile(resp.payload)
              /\ Stored = <<NewArticle(resp)>>
         /\ resp.status # 200 =>
              /\ resp = WriteFailed(file).resp
              /\ file.kind # "json"
    /\ (\/ call.op = "PUT" /\ call.body.kind # "unparseable"
        \/ call.op = "DELETE" /\ ~Falsy(parseIntId(call.param))) =>
         /\ resp.status = 404
         /\ resp.success = "false"
         /\ call.writes = 0
         /\ file = call.before

\* A Create was answered 200 with id 1 although the file, cut short by an
\* earlier failed write, did not parse; the file is a Document again.
C19_Witness ==
  /\ Succeeded("POST")
  /\ call.before.kind = "garbage"
  /\ received >= 2
  /\ AssignedId(resp) = 1
  /\ file.kind = "json"
  /\ Len(Stored) = 1

\* request.json() settles, with the body or with a rejection, for every
\* request: no invocation stays suspended at its await for ever.
FairSpec == Spec /\ WF_vars(POSTResume) /\ WF_vars(PUTResume)

Statuses == {200, 400, 404, 500}

\* A response NextResponse.json built: a status of the four, and a success
\* member, which only the List response does without.
Structured(response) ==
  /\ response.status \in Statuses
  /\ response.success \in {"true", "false", "absent"}
  /\ response.success = "absent" => response.status = 200

\* One step answers at most one request, and with one structured response:
\* a request arrives and is answered in the step, or arrives and is suspended
\* at its await with no response yet, or a suspended one is answered.
AnswersOne ==
  \/ /\ received' = received + 1
     /\ pending' = pending
     /\ Structured(resp')
     /\ call'.op \in {"GET", "DELETE"}
  \/ /\ received' = received + 1
     /\ BagCardinality(pending') = BagCardinality(pending) + 1
     /\ resp' = resp /\ call' = call /\ file' = file
  \/ /\ received' = received
     /\ BagCardinality(pending') = BagCardinality(pending) - 1
     /\ Structured(resp')
     /\ call'.op \in {"POST", "PUT"}

\* C14: whatever the file, the body and the outcome of the write, each
\* request is answered once, with a structured response whose status is 200,
\* 400, 404 or 500: every step answers one request or suspends one, the last
\* response is always a structured one, and no invocation stays suspended
\* for ever: again and again none is.
C14_EveryRequestAnswered ==
  /\ [][AnswersOne]_vars
  /\ [](call.op # "none" => Structured(resp))
  /\ [](received = 0 => pending = EmptyBag)
  /\ []<>(pending = EmptyBag)

\* A Create whose body is no JSON was answered 500 while the file did not
\* parse and no invocation was left suspended.
C14_Witness ==
  /\ call.op = "POST"
  /\ call.before.kind # "json"
  /\ call.body.kind = "unparseable"
  /\ resp.status = 500
  /\ received >= 2
  /\ pending = EmptyBag

\* ------------------------------------------------------------ the page
\* One browser on the service, its requests handled one at a time.  A fetch
\* is issued in one step and settles in a later one, in which the handler
\* runs; a fetch can also reject without reaching the service.
SubmitErrorText == "Une erreur est survenue lors de l'enregistrement"

\* validateForm, for the one text field kept: authors must not be empty.
validateForm(formData) == formData.authors # ""

\* The server's side of a request that settles: as Complete, for a request
\* counted among those received.
Settle(op, body, param, o) ==
  /\ Receive(MaxPageRequests)
  /\ Complete(op, body, param, readDataFile(file), o)
  /\ UNCHANGED pending

\* The user waits for the request in flight to settle before the next one.
NoneInFlight == ui.saving = <<>> /\ ui.deleting = <<>>

ServerIdle == UNCHANGED <<file, pending, received, resp, call, created>>

\* A row of the grid is clicked; the grid shows the Articles of the file.
handleRowSelect ==
  /\ ui.selectedArticle = <<>> /\ ~ui.isFormOpen
  /\ \E i \in 1..Len(readDataFile(file).articles) :
       ui' = [ui EXCEPT !.selectedArticle = <<readDataFile(file).articles[i]>>,
                        !.deleteConfirm = FALSE]
  /\ ServerIdle

handleBackToList ==
  /\ ui.selectedArticle # <<>> /\ ~ui.isFormOpen
  /\ ui' = [ui EXCEPT !.selectedArticle = <<>>, !.deleteConfirm = FALSE]
  /\ ServerIdle

handleOpenAddForm ==
  /\ ~ui.isFormOpen
  /\ ui' = [ui EXCEPT !.formData = defaultArticle, !.isFormOpen = TRUE]
  /\ ServerIdle

\* The edit icon of the detail view, shown while no confirmation is asked.
handleOpenEditForm ==
  /\ ui.selectedArticle # <<>> /\ ~ui.isFormOpen /\ ~ui.deleteConfirm
  /\ ui' = [ui EXCEPT !.formData = ui.selectedArticle[1], !.isFormOpen = TRUE]
  /\ ServerIdle

\* Annuler, or a click outside the dialog.
handleCloseForm ==
  /\ ui.isFormOpen
  /\ ui' = [ui EXCEPT !.isFormOpen = FALSE]
  /\ ServerIdle

handleChange ==
  /\ ui.isFormOpen
  /\ \E value \in Authors : ui' = [ui EXCEPT !.formData.authors = value]
  /\ ServerIdle

\* The delete icon of the detail view, then Annuler or Supprimer.
askDeleteConfirm ==
  /\ ui.selectedArticle # <<>> /\ ~ui.isFormOpen /\ ~ui.deleteConfirm
  /\ ui' = [ui EXCEPT !.deleteConfirm = TRUE]
  /\ ServerIdle

cancelDeleteConfirm ==
  /\ ui.selectedArticle # <<>> /\ ~ui.isFormOpen /\ ui.deleteConfirm
  /\ ui' = [ui EXCEPT !.deleteConfirm = FALSE]
  /\ ServerIdle

\* Supprimer: onDelete(article) issues the fetch, setDeleteConfirm(false)
\* follows at once.
confirmDelete ==
  /\ ui.selectedArticle # <<>> /\ ~ui.isFormOpen /\ ui.deleteConfirm
  /\ NoneInFlight
  /\ ui' = [ui EXCEPT !.deleting = ui.selectedArticle, !.deleteConfirm = FALSE]
  /\ ServerIdle

\* `/api/data?id=${article.id}`
idParam(article) ==
  IF "id" \in DOMAIN article
    THEN [kind |-> "digits", n |-> article.id]
    ELSE [kind |-> "text", n |-> 0]

\* handleDeleteArticle from its await on: a response that is ok returns to
\* the list; anything else is caught and logged to the console.
handleDeleteArticle ==
  /\ ui.deleting # <<>>
  /\ \/ /\ ServerIdle
        /\ ui' = [ui EXCEPT !.deleting = <<>>]
     \/ \E w \in WriteOutcomes :
          LET param == idParam(ui.deleting[1])
              o == DELETEOutcome(file, param, w)
          IN /\ Settle("DELETE", NoBody, param, o)
             /\ ui' = IF o.resp.status = 200
                        THEN [ui EXCEPT !.deleting = <<>>, !.selectedArticle = <<>>,
                                        !.deleteConfirm = FALSE]
                        ELSE [ui EXCEPT !.deleting = <<>>]

\* handleSubmit up to `await onSave(formData)`.
handleSubmit ==
  /\ ui.isFormOpen /\ ~ui.isSubmitting
  /\ NoneInFlight
  /\ ui' = IF validateForm(ui.formData)
             THEN [ui EXCEPT !.submitError = "", !.isSubmitting = TRUE,
                             !.saving = <<ui.formData>>]
             ELSE [ui EXCEPT !.submitError = ""]
  /\ ServerIdle

\* The page after handleSaveArticle threw and handleSubmit caught it.
SaveFailedPage == [ui EXCEPT !.saving = <<>>, !.submitError = SubmitErrorText,
                             !.isSubmitting = FALSE]

\* handleSaveArticle from its await on, and the rest of handleSubmit: PUT when
\* the form's article has an id, POST otherwise.
handleSaveArticle ==
  /\ ui.saving # <<>>
  /\ \/ /\ ServerIdle
        /\ ui' = SaveFailedPage
     \/ \E w \in WriteOutcomes :
          LET body == [kind |-> "object", obj |-> ui.saving[1]]
              op == IF "id" \in DOMAIN ui.saving[1] THEN "PUT" ELSE "POST"
              o == IF op = "PUT"
                     THEN PUTOutcome(file, readDataFile(file), body, w)
                     ELSE POSTOutcome(file, readDataFile(file), body, w)
          IN /\ Settle(op, body, NoParam, o)
             /\ ui' = IF o.resp.status = 200
                        THEN [ui EXCEPT !.saving = <<>>, !.selectedArticle = <<>>,
                                        !.isFormOpen = FALSE, !.isSubmitting = FALSE,
                                        !.deleteConfirm = FALSE]
                        ELSE SaveFailedPage

PageNext ==
  \/ handleRowSelect \/ handleBackToList
  \/ handleOpenAddForm \/ handleOpenEditForm \/ handleCloseForm \/ handleChange
  \/ askDeleteConfirm \/ cancelDeleteConfirm \/ confirmDelete \/ handleDeleteArticle
  \/ handleSubmit \/ handleSaveArticle

PageSpec == Init /\ [][PageNext]_vars

\* The one Alert of the page, in the form's dialog.
AlertShown(page) == page.isFormOpen /\ page.submitError # ""

\* The step in which a save, or a delete, the page issued settles as failed:
\* the fetch rejected or the response was not ok.
SaveFails ==
  ui.saving # <<>> /\ ui'.saving = <<>> /\ (received' = received \/ resp'.status # 200)

DeleteFails ==
  ui.deleting # <<>> /\ ui'.deleting = <<>> /\ (received' = received \/ resp'.status # 200)

\* C15: when a save of the page fails, the form, if still open, stays open
\* and shows the alert; when a delete fails, an alert is shown, the detail
\* view the user is on stays, and the confirmation, reset when the delete was
\* issued, does not come back; neither failure changes the Article selected.
C15_FailureShowsAlertAndStays ==
  [][/\ SaveFails =>
          /\ ui.isFormOpen => AlertShown(ui')
          /\ ui'.selectedArticle = ui.selectedArticle
     /\ DeleteFails =>
          /\ AlertShown(ui')
          /\ ui'.selectedArticle = ui.selectedArticle
          /\ ~ui.deleteConfirm => ~ui'.deleteConfirm]_vars

====
